---- MODULE Spec2Model ----
(***************************************************************************)
(* Model of the cloud chat path of src/main.py: the sliding-window         *)
(* RateLimiter, the chat_with_gemini handler and the retry loop of         *)
(* call_gemini_api_with_retry.  Time is a discrete clock (seconds).  The   *)
(* handlers are coroutines on one event loop: the code between two awaits  *)
(* is one atomic step, and every await that really suspends (the limiter's *)
(* sleep, the POST, the backoff sleep) ends a step.                        *)
(*                                                                         *)
(* Model of the ingestion path of src/backend/embeddings/test.py: the      *)
(* token batcher create_batches (BatchSpec), and process_all_documents     *)
(* over the Chroma collection (IngestSpec).  The calls into the loaders,   *)
(* the embedding service and the store may fail; whether a call fails is   *)
(* an input of the step that makes it.                                     *)
(*                                                                         *)
(* Model of the FAISS collections of src/backend/pages/rag_cag.py          *)
(* (StoreSpec): build_vectordb as the upload endpoint of src/main.py calls *)
(* it file by file, get_retriever and get_combined_retriever.  The upload  *)
(* handler is a coroutine: `await file.read()` ends a step.  Similarity is *)
(* a table of scores in tenths.                                            *)
(*                                                                         *)
(* Further specifications over the same variables: ChatSpec (the chat path *)
(* with the retrieval of its context), QuerySpec (query_with_rag over the  *)
(* collections that runs leave on disk), ResumeSpec (runs that append to   *)
(* an existing collection), ConcurrentSpec (two upload requests on one     *)
(* event loop), UploadSpec (requests with files the endpoint turns away),  *)
(* LlmSpec (analyze_mapping_errors and the cache of local models).         *)
(***************************************************************************)
EXTENDS Integers, Sequences, FiniteSets, TLC

\* RateLimiter(max_requests, window_seconds), scaled down from 14 / 60.
max_requests == 2
window_seconds == 3
\* call_gemini_api_with_retry(..., max_retries=3)
max_retries == 3
\* The clock stops here.
MaxTime == 7
\* create_batches is tried on up to MaxChunks chunks of 0, 10, ..., 10 * MaxTokenSteps
\* tokens, under limits of 0, 10, ..., 10 * MaxLimitSteps tokens.
MaxChunks == 3
MaxTokenSteps == 7
MaxLimitSteps == 10
\* create_batches(docs, max_tokens_per_batch=200000)
default_max_tokens_per_batch == 200000
\* `if len(docs) > 100:` of create_or_update_vector_store, scaled down from 100
batching_threshold == 2
\* process_all_documents is run up to MaxRuns times.
MaxRuns == 2
\* search_kwargs={"k": 4} of get_retriever
faiss_k == 4
\* "k": 5 of query_with_rag
chroma_k == 5
\* "score_threshold": 0.1 of query_with_rag, in tenths
score_threshold == 1
\* The upload endpoint is called up to MaxUploads times.
MaxUploads == 2
\* Coroutines of the event loop that call the limiter concurrently.
Tasks == {"t1", "t2"}
\* The client whose chat requests are followed through the whole handler.
ChatTasks == {"t1"}

VARIABLES
  clock,      \* time.time()
  requests,   \* rate_limiter.requests
  pc,         \* where each task's chat_with_gemini coroutine stands
  now,        \* wait_if_needed's local `now`
  wake,       \* deadline of the task's pending asyncio.sleep
  attempt,    \* loop variable of call_gemini_api_with_retry
  result,     \* how call_gemini_api_with_retry ended
  passes,     \* history: times the task went through wait_if_needed in this call
  log,        \* history: the responses this call's POSTs got, in order
  slept,      \* history: sum of the backoff sleeps of this call
  passed      \* history: clock values, still inside the window, at which
              \* wait_if_needed let a request through

chatVars == <<clock, requests, pc, now, wake, attempt, result, passes, log, slept, passed>>

VARIABLES
  docs,                  \* create_batches: the chunks handed in
  max_tokens_per_batch,  \* create_batches: the limit handed in
  batches,               \* create_batches: the batches returned
  batched                \* whether create_batches has returned

batchVars == <<docs, max_tokens_per_batch, batches, batched>>

VARIABLES
  files_dir,   \* the supported files in files_dir
  db_exists,   \* os.path.exists(persistent_directory) of the Chroma collection
  db_records,  \* the records persisted in the Chroma collection
  runs,        \* history: process_all_documents runs so far
  run,         \* history: what the last process_all_documents run did
  lastAnswer   \* history: what the query_with_rag call just made did

ingestVars == <<files_dir, db_exists, db_records, runs, run, lastAnswer>>

VARIABLES
  vs,         \* per category: the {category}_docs_vectorstore directory
  up,         \* per request: where its upload_corporate_documents stands
  uploads,    \* history: calls of the upload endpoint so far
  lastQuery   \* history: what the retrieval just made did

storeVars == <<vs, up, uploads, lastQuery>>

\* what the chat path leaves alone
VARIABLES
  llm_cache,     \* llm_cache: per model name the instance kept for it, if any
  lastAnalysis   \* history: what the last analyze_mapping_errors call did

llmVars == <<llm_cache, lastAnalysis>>

otherVars == <<batchVars, ingestVars, storeVars, llmVars>>

vars == <<chatVars, otherVars>>

----------------------------------------------------------------------------
(* Responses of the backend *)

\* A missing key / None is the empty sequence, a present value a 1-tuple.
Parts == {[text |-> <<>>], [text |-> <<"">>], [text |-> <<"answer">>]}
Contents == {[parts |-> <<>>]} \cup {[parts |-> <<p>>] : p \in Parts}
Candidates == {[content |-> <<>>]} \cup {[content |-> <<c>>] : c \in Contents}
Datas == {[candidates |-> <<>>]} \cup {[candidates |-> <<c>>] : c \in Candidates}
NoData == [candidates |-> <<>>]

\* Bodies of error responses.
Bodies == {"Internal error", "Rate limit reached"}
OtherStatuses == {500, 204}

\* the request ran into timeout=30 (asyncio.TimeoutError)
Timeout == [kind |-> "timeout", status |-> 0, data |-> NoData, body |-> ""]
\* the request failed in the client (aiohttp.ClientError)
ClientFailure == [kind |-> "error", status |-> 0, data |-> NoData, body |-> ""]
\* What one session.post can come to.
Outcomes ==
  {[kind |-> "response", status |-> 200, data |-> d, body |-> ""] : d \in Datas}
  \cup {[kind |-> "response", status |-> s, data |-> NoData, body |-> ""] : s \in {429, 403}}
  \cup {[kind |-> "response", status |-> s, data |-> NoData, body |-> b] :
          s \in OtherStatuses, b \in Bodies}
  \cup {Timeout, ClientFailure}

----------------------------------------------------------------------------
(* Exceptions: the message, and for "API error {status}: {body}" its parts *)

Exc(type, msg, status, body) == [type |-> type, msg |-> msg, status |-> status, body |-> body]
EmptyResponseError == Exc("Exception", "Empty response from Gemini API", 0, "")
RateLimitError == Exc("Exception", "Rate limit exceeded - please try again later", 0, "")
ForbiddenError == Exc("Exception", "Invalid API key or insufficient permissions", 0, "")
RequestTimeoutError == Exc("Exception", "Request timeout - please try again", 0, "")
ApiError(status, body) == Exc("Exception", "API error", status, body)
TimeoutError == Exc("TimeoutError", "", 0, "")
KeyError == Exc("KeyError", "'text'", 0, "")
ClientError == Exc("ClientError", "Cannot connect to host", 0, "")
\* what a failed search of the vector store raises
RetrievalError == Exc("RuntimeError", "Error searching the index", 0, "")
NoExc == Exc("", "", 0, "")

\* The fixed messages and the bodies that contain `needle`, case-insensitively.
Containing(needle) ==
  CASE needle = "rate limit" ->
         {"Rate limit exceeded - please try again later", "Rate limit reached"}
    [] OTHER -> {}

\* needle in str(e).lower(); "API error {status}: {body}" has it iff the body has
Mentions(e, needle) ==
  IF e.msg = "API error" THEN e.body \in Containing(needle)
  ELSE e.msg \in Containing(needle)

\* "rate limit" in str(e).lower()
MentionsRateLimit(e) == Mentions(e, "rate limit")

----------------------------------------------------------------------------
(* RateLimiter *)

\* [req_time for req_time in self.requests if now - req_time < self.window_seconds]
InWindow(reqs, t) == SelectSeq(reqs, LAMBDA r : t - r < window_seconds)

\* the wait one second short of the window instead of one second over it
WaitTime_Short(t, first) == window_seconds - (t - first) - 1
\* wait_time = self.window_seconds - (now - self.requests[0]) + 1
WaitTime(t, first) == window_seconds - (t - first) + 1

----------------------------------------------------------------------------
(* call_gemini_api_with_retry: one pass of the loop body on response o *)

Return(text) == [act |-> "return", text |-> text, exc |-> NoExc, wait |-> 0]
Raise(e) == [act |-> "raise", text |-> "", exc |-> e, wait |-> 0]
SleepThenContinue(d) == [act |-> "sleep", text |-> "", exc |-> NoExc, wait |-> d]

\* a backoff that does not grow with the attempt
RateLimitDelay_Flat(a) == 2
\* (2 ** attempt) * 2
RateLimitDelay(a) == (2 ^ a) * 2
\* the timeout branch given the 429 branch's factor
TimeoutDelay_Factor2(a) == (2 ^ a) * 2
\* (2 ** attempt) * 1
TimeoutDelay(a) == (2 ^ a) * 1

\* lines 431-437
On200(data) ==
  IF Len(data.candidates) > 0
     /\ Len(data.candidates[1].content) > 0
     /\ Len(data.candidates[1].content[1].parts) > 0
  THEN LET part == data.candidates[1].content[1].parts[1]
       IN IF Len(part.text) > 0 THEN Return(part.text[1]) ELSE Raise(KeyError)
  ELSE Raise(EmptyResponseError)

\* the retry test off by one: it also "retries" after the last attempt
On429_OffByOne(a) ==
  IF a < max_retries THEN SleepThenContinue(RateLimitDelay(a))
  ELSE Raise(RateLimitError)
\* lines 439-446
On429(a) ==
  IF a < max_retries - 1 THEN SleepThenContinue(RateLimitDelay(a))
  ELSE Raise(RateLimitError)

\* the try body, lines 406-453
TryBody(o, a) ==
  IF o.kind = "timeout" THEN Raise(TimeoutError)
  ELSE IF o.kind = "error" THEN Raise(ClientError)
  ELSE IF o.status = 200 THEN On200(o.data)
  ELSE IF o.status = 429 THEN On429(a)
  ELSE IF o.status = 403 THEN Raise(ForbiddenError)
  ELSE Raise(ApiError(o.status, o.body))

\* the asyncio.TimeoutError of the last attempt let out as it is
OnTimeout_RawTimeout(a) ==
  IF a < max_retries - 1 THEN SleepThenContinue(TimeoutDelay(a))
  ELSE Raise(TimeoutError)
\* except asyncio.TimeoutError, lines 455-462
OnTimeout(a) ==
  IF a < max_retries - 1 THEN SleepThenContinue(TimeoutDelay(a))
  ELSE Raise(RequestTimeoutError)

\* the handler retrying whatever was raised
OnException_RetryAny(e, a) ==
  IF a < max_retries - 1
  THEN SleepThenContinue(RateLimitDelay(a))
  ELSE Raise(e)
\* the handler never retrying
OnException_NoRetry(e, a) == Raise(e)
\* except Exception as e, lines 464-470
OnException(e, a) ==
  IF a < max_retries - 1 /\ MentionsRateLimit(e)
  THEN SleepThenContinue(RateLimitDelay(a))
  ELSE Raise(e)

\* try / except of one iteration
Iteration(o, a) ==
  LET r == TryBody(o, a)
  IN IF r.act # "raise" THEN r
     ELSE IF r.exc.type = "TimeoutError" THEN OnTimeout(a)
     ELSE OnException(r.exc, a)

----------------------------------------------------------------------------
(* Results of a call *)

Pending == [kind |-> "pending", text |-> "", exc |-> NoExc]
Returned(text) == [kind |-> "returned", text |-> text, exc |-> NoExc]
ReturnedNone == [kind |-> "none", text |-> "", exc |-> NoExc]
Raised(e) == [kind |-> "raised", text |-> "", exc |-> e]

----------------------------------------------------------------------------
(* chat_with_gemini: the GeminiChatResponse built from the call's result *)

StatusStr(status) == CASE status = 500 -> "500" [] status = 204 -> "204" [] OTHER -> "0"

\* str(e)
Str(e) ==
  IF e.msg = "API error" THEN "API error " \o StatusStr(e.status) \o ": " \o e.body
  ELSE e.msg

\* lines 373-381
ErrorMessage(e) ==
  IF Mentions(e, "429") \/ Mentions(e, "rate limit")
  THEN "Rate limit exceeded. Please wait a moment and try again."
  ELSE IF Mentions(e, "403") \/ Mentions(e, "forbidden")
  THEN "Invalid API key or insufficient permissions."
  ELSE IF Mentions(e, "quota")
  THEN "API quota exceeded. Please check your Gemini API usage."
  ELSE Str(e)

\* lines 362-369 and 389-397
GeminiChatResponse(res) ==
  IF res.kind = "raised"
  THEN [success |-> FALSE, response |-> "", error_message |-> <<ErrorMessage(res.exc)>>]
  ELSE IF res.kind = "none"   \* len(response_text) of None raises TypeError
  THEN [success |-> FALSE, response |-> "",
        error_message |-> <<"object of type 'NoneType' has no len()">>]
  ELSE [success |-> TRUE, response |-> res.text, error_message |-> <<>>]

----------------------------------------------------------------------------
(* create_batches (src/backend/embeddings/test.py) *)

\* A chunk: where it comes from, its place there, count_tokens(doc.page_content).
Chunk(source, idx, tokens) == [source |-> source, idx |-> idx, tokens |-> tokens]

\* batches = [] / current_batch = [] / current_tokens = 0
BatchStart == [batches |-> <<>>, current_batch |-> <<>>, current_tokens |-> 0]

\* the test made on the running sum before the chunk is added
BatchStep_TestBefore(st, doc, limit) ==
  IF st.current_tokens > limit /\ st.current_batch # <<>>
  THEN [batches |-> Append(st.batches, st.current_batch),
        current_batch |-> <<doc>>,
        current_tokens |-> doc.tokens]
  ELSE [batches |-> st.batches,
        current_batch |-> Append(st.current_batch, doc),
        current_tokens |-> st.current_tokens + doc.tokens]
\* the chunk that closes a batch left out of the next one
BatchStep_DropsChunk(st, doc, limit) ==
  IF st.current_tokens + doc.tokens > limit /\ st.current_batch # <<>>
  THEN [batches |-> Append(st.batches, st.current_batch),
        current_batch |-> <<>>,
        current_tokens |-> 0]
  ELSE [batches |-> st.batches,
        current_batch |-> Append(st.current_batch, doc),
        current_tokens |-> st.current_tokens + doc.tokens]
\* a batch closed already when the sum reaches the limit
BatchStep_ClosesAtLimit(st, doc, limit) ==
  IF st.current_tokens + doc.tokens >= limit /\ st.current_batch # <<>>
  THEN [batches |-> Append(st.batches, st.current_batch),
        current_batch |-> <<doc>>,
        current_tokens |-> doc.tokens]
  ELSE [batches |-> st.batches,
        current_batch |-> Append(st.current_batch, doc),
        current_tokens |-> st.current_tokens + doc.tokens]
\* the body of `for i, doc in enumerate(docs)`, lines 118-130
BatchStep(st, doc, limit) ==
  IF st.current_tokens + doc.tokens > limit /\ st.current_batch # <<>>
  THEN [batches |-> Append(st.batches, st.current_batch),
        current_batch |-> <<doc>>,
        current_tokens |-> doc.tokens]
  ELSE [batches |-> st.batches,
        current_batch |-> Append(st.current_batch, doc),
        current_tokens |-> st.current_tokens + doc.tokens]

\* the for loop, lines 117-130, from chunk i on
RECURSIVE BatchLoop(_, _, _, _)
BatchLoop(st, ds, i, limit) ==
  IF i > Len(ds) THEN st
  ELSE BatchLoop(BatchStep(st, ds[i], limit), ds, i + 1, limit)

\* create_batches(docs, max_tokens_per_batch), lines 109-142
create_batches(ds, limit) ==
  LET st == BatchLoop(BatchStart, ds, 1, limit)
  IN IF st.current_batch # <<>> THEN Append(st.batches, st.current_batch)
     ELSE st.batches

----------------------------------------------------------------------------
(* Ingestion into the Chroma collection (src/backend/embeddings/test.py) *)

\* The documents that can be dropped into files_dir.  The loaders put the
\* path of the file in metadata["source"] of each of its chunks.
Files == {"a.pdf", "big.docx"}

\* text_splitter.split_documents(loader.load()): the chunks of a file.
\* big.docx has more chunks than the batching threshold, and more tokens
\* than one batch takes.
ChunksOf(doc_path) ==
  IF doc_path = "a.pdf"
  THEN <<Chunk("a.pdf", 1, 150000), Chunk("a.pdf", 2, 100000)>>
  ELSE [i \in 1..(batching_threshold + 1) |->
          Chunk("big.docx", i,
                IF i \in {1, batching_threshold + 1} THEN 150000 ELSE 500)]

\* how a function ended: with a value, or with an exception
Ok(v) == [raised |-> FALSE, value |-> v]
Failed(v) == [raised |-> TRUE, value |-> v]

\* the distinct metadata["source"] of the records
Sources(records) == {records[i].source : i \in DOMAIN records}

\* the failure to open the collection let out to the caller
get_existing_sources_Raises(exists, records, opens) ==
  IF exists
  THEN IF opens THEN Ok(Sources(records)) ELSE Failed({})
  ELSE Ok({})
\* get_existing_sources(store_name), lines 86-106; opens: whether
\* OpenAIEmbeddings(), Chroma() and db.get() go through
get_existing_sources(exists, records, opens) ==
  IF exists
  THEN IF opens THEN Ok(Sources(records)) ELSE Ok({})
  ELSE Ok({})

\* batches[from..to] one after the other, the failed ones left out
RECURSIVE Added(_, _, _, _)
Added(bs, from, to, fails) ==
  IF from > to THEN <<>>
  ELSE (IF from \in fails THEN <<>> ELSE bs[from]) \o Added(bs, from + 1, to, fails)

\* the units create_or_update_vector_store hands to the store one by one
StoreBatches(exists, ds) ==
  IF ~exists /\ ~(Len(ds) > batching_threshold) THEN <<ds>>
  ELSE create_batches(ds, default_max_tokens_per_batch)

\* the first failing add, or one past the last batch
FirstFailure(n, fails) ==
  IF fails \cap (1..n) = {} THEN n + 1
  ELSE CHOOSE j \in fails \cap (1..n) : \A i \in fails \cap (1..n) : j <= i

\* create_or_update_vector_store(docs, embeddings, store_name), lines 145-193.
\* opens: whether Chroma() of line 173 goes through; fails: the batches whose
\* from_documents / add_documents raises; dirLeft: whether a failed
\* from_documents leaves the directory behind.
create_or_update_vector_store(exists, records, ds, opens, fails, dirLeft) ==
  LET bs == StoreBatches(exists, ds)
      n  == Len(bs)
      j  == FirstFailure(n, fails)
  IN IF ~exists
     THEN IF j = 1
          THEN [raised |-> TRUE, exists |-> dirLeft, records |-> <<>>,
                batches |-> bs, attempted |-> {1}]
          ELSE [raised |-> j <= n, exists |-> TRUE,
                records |-> Added(bs, 1, j - 1, {}),
                batches |-> bs, attempted |-> 1..(IF j <= n THEN j ELSE n)]
     ELSE IF ~opens
          THEN [raised |-> TRUE, exists |-> TRUE, records |-> records,
                batches |-> <<>>, attempted |-> {}]
          ELSE [raised |-> FALSE, exists |-> TRUE,
                records |-> records \o Added(bs, 1, n, fails),
                batches |-> bs, attempted |-> 1..n]

\* the loop of lines 238-246: the chunks of the new files that load
RECURSIVE AllDocs(_, _)
AllDocs(new_files, loads) ==
  IF new_files = <<>> THEN <<>>
  ELSE (IF new_files[1] \in loads THEN ChunksOf(new_files[1]) ELSE <<>>)
         \o AllDocs(Tail(new_files), loads)

\* new_files = [f for f in doc_files if f not in existing_sources]
NewFiles(doc_files, existing_sources) ==
  SelectSeq(doc_files, LAMBDA f : f \notin existing_sources)

\* what a run leaves in the history variable
RunRecord(outcome, before, doc_files, opened, sources, updated, bs, attempted) ==
  [outcome |-> outcome, dbBefore |-> before, doc_files |-> doc_files,
   opened |-> opened, sources |-> sources, updated |-> updated,
   batches |-> bs, attempted |-> attempted]
NoRun ==
  RunRecord("none", [exists |-> FALSE, records |-> <<>>], <<>>, FALSE, Ok({}),
            FALSE, <<>>, {})

----------------------------------------------------------------------------
(* The FAISS collections (src/backend/pages/rag_cag.py) *)

\* the categories that have a vector store: target_dir = f"{category}_docs"
Categories == {"rag", "cag"}
\* the upload requests in flight at once
Uploaders == {"u1", "u2"}
\* the request followed in StoreSpec
StoreUploaders == {"u1"}
\* the files a request can carry
UploadFiles == {"f1.txt", "f2.md"}
\* what a retrieval can ask
Queries == {"q1", "q2"}

\* os.path.join(target_dir, file.filename): where the upload is kept
KeptPath(category, file) == category \o "_docs/" \o file
\* tempfile.NamedTemporaryFile(delete=False, suffix=file_extension).name
TempPath(file) == IF file = "f1.txt" THEN "/tmp/tmpupload.txt" ELSE "/tmp/tmpupload.md"
\* split_documents(process_document(temp_path)): the chunks of a file; the
\* loader puts the path it was given into metadata["source"]
Piece(path, idx) == [source |-> path, idx |-> idx]
split_documents(file) == <<Piece(TempPath(file), 1), Piece(TempPath(file), 2)>>

\* the similarity of a chunk to a query, in tenths
Score(q, p) ==
  IF q = "q1"
  THEN IF p.source = TempPath("f1.txt") THEN (IF p.idx = 1 THEN 9 ELSE 0)
       ELSE (IF p.idx = 1 THEN 3 ELSE 5)
  ELSE IF p.source = TempPath("f1.txt") THEN (IF p.idx = 1 THEN 0 ELSE 2)
       ELSE (IF p.idx = 1 THEN 7 ELSE 0)

\* a vector store directory: absent, or present with the records saved in it;
\* present without records is the empty directory, which does not load
Absent == [exists |-> FALSE, records |-> <<>>]
Saved(records) == [exists |-> TRUE, records |-> records]
\* FAISS.load_local(vectorstore_path, ...) goes through
Loads(dir, loads) == dir.records # <<>> /\ loads

\* build_vectordb(chunks, directory_name), lines 70-91.  o.loads, o.adds,
\* o.creates: whether load_local, add_documents, from_documents go through;
\* save_local is taken to go through.
build_vectordb(dir, chunks, o) ==
  IF dir.exists
  THEN IF Loads(dir, o.loads) /\ o.adds
       THEN Ok(Saved(dir.records \o chunks))
       ELSE IF o.creates THEN Ok(Saved(chunks)) ELSE Failed(dir)
  ELSE IF o.creates THEN Ok(Saved(chunks)) ELSE Failed(dir)

\* the k records closest to the query, closest first; of two equally close
\* ones the one stored first
RECURSIVE Ranked(_, _, _, _)
Ranked(records, q, taken, k) ==
  IF k = 0 \/ taken = DOMAIN records THEN <<>>
  ELSE LET rest == DOMAIN records \ taken
           best == CHOOSE i \in rest : \A j \in rest :
                     \/ Score(q, records[i]) > Score(q, records[j])
                     \/ Score(q, records[i]) = Score(q, records[j]) /\ i <= j
       IN <<records[best]>> \o Ranked(records, q, taken \cup {best}, k - 1)
\* search_type="similarity", search_kwargs={"k": k}
similarity_search(records, q, k) == Ranked(records, q, {}, k)

\* get_retriever(directory_name), lines 94-109: nothing (None), or a
\* retriever over the loaded records
get_retriever(dir, loads) ==
  IF dir.exists
  THEN IF Loads(dir, loads) THEN <<dir.records>> ELSE <<>>
  ELSE <<>>

\* retriever.get_relevant_documents(query); finds: whether the search goes through
get_relevant_documents(retriever, q, finds) ==
  IF finds THEN Ok(similarity_search(retriever[1], q, faiss_k)) ELSE Failed(<<>>)

\* a search is made on a store that has loaded
QueryOutcomes ==
  {o \in [rag_loads : BOOLEAN, cag_loads : BOOLEAN,
          rag_finds : BOOLEAN, cag_finds : BOOLEAN] :
     (~o.rag_loads => o.rag_finds) /\ (~o.cag_loads => o.cag_finds)}

\* the collections asked in the other order
combined_retrieve_CagFirst(rag_docs, cag_docs) ==
  IF rag_docs.raised \/ cag_docs.raised THEN Ok(<<>>)
  ELSE Ok(cag_docs.value \o rag_docs.value)
\* combined_retrieve(query), lines 150-157
combined_retrieve(rag_docs, cag_docs) ==
  IF rag_docs.raised \/ cag_docs.raised THEN Ok(<<>>)
  ELSE Ok(rag_docs.value \o cag_docs.value)

\* what a retrieval leaves in the history variable
QueryRecord(kind, q, rag_docs, cag_docs, found) ==
  [kind |-> kind, query |-> q, rag_docs |-> rag_docs, cag_docs |-> cag_docs,
   docs |-> found]
NoQuery == QueryRecord("none", "q1", Ok(<<>>), Ok(<<>>), Ok(<<>>))

\* a request that is not being handled
NoUpload ==
  [pc |-> "idle", category |-> "rag", files |-> <<>>, i |-> 0,
   before |-> <<>>, built |-> <<>>, written |-> <<>>, errors |-> <<>>,
   status |-> 0]

\* MAX_FILE_SIZE = int(os.getenv("MAX_FILE_SIZE", "10485760"))
MAX_FILE_SIZE == 10485760
\* allowed_extensions of line 604
allowed_extensions == {".txt", ".pdf", ".md", ".csv", ".xlsx", ".docx", ".json", ".sql"}
\* the files a request can carry, with the two that are turned away
AnyFiles == UploadFiles \cup {"huge.pdf", "notes.exe"}
\* Path(file.filename).suffix.lower()
suffix(file) ==
  IF file = "f1.txt" THEN ".txt"
  ELSE IF file = "f2.md" THEN ".md"
  ELSE IF file = "huge.pdf" THEN ".pdf"
  ELSE ".exe"
\* file.size
size(file) == IF file = "huge.pdf" THEN MAX_FILE_SIZE + 1 ELSE 1024

\* an error met while a request is handled: what it was about and its kind
UploadError(file, kind) == [file |-> file, kind |-> kind]
\* the status of the response: none yet, 200, or the HTTPException of the
\* except branch, lines 666-673
Status(at) == IF at = "returned" THEN 200 ELSE IF at = "failed" THEN 500 ELSE 0

\* a file over the limit passed over like an unsupported one
RECURSIVE NextStop_SkipsTooLarge(_, _)
NextStop_SkipsTooLarge(files, i) ==
  IF i > Len(files) THEN [pc |-> "returned", i |-> i, errors |-> <<>>]
  ELSE IF size(files[i]) > MAX_FILE_SIZE \/ suffix(files[i]) \notin allowed_extensions
  THEN NextStop_SkipsTooLarge(files, i + 1)
  ELSE [pc |-> "reading", i |-> i, errors |-> <<>>]
\* the loop of lines 597-611 from files[i] on, up to the next
\* `await file.read()`, the end of the list or the raise of line 599
RECURSIVE NextStop(_, _)
NextStop(files, i) ==
  IF i > Len(files) THEN [pc |-> "returned", i |-> i, errors |-> <<>>]
  ELSE IF size(files[i]) > MAX_FILE_SIZE
  THEN [pc |-> "failed", i |-> i, errors |-> <<UploadError(files[i], "too_large")>>]
  ELSE IF suffix(files[i]) \notin allowed_extensions
  THEN NextStop(files, i + 1)
  ELSE [pc |-> "reading", i |-> i, errors |-> <<>>]

----------------------------------------------------------------------------
(* query_with_rag (src/backend/embeddings/test.py) *)

\* search_type="similarity_score_threshold": of the k closest records those
\* whose similarity is at least the threshold
similarity_score_threshold(records, q, k, threshold) ==
  SelectSeq(similarity_search(records, q, k),
            LAMBDA p : Score(q, p) >= threshold)

\* what the caller of query_with_rag observes, and what the call did on the way
AnswerRecord(called, q, exists, retrieved, relevant_docs, llm_called, llm_failed, observed) ==
  [called |-> called, query |-> q, exists |-> exists, retrieved |-> retrieved,
   relevant_docs |-> relevant_docs, llm_called |-> llm_called,
   llm_failed |-> llm_failed, observed |-> observed]
NoCall == AnswerRecord(FALSE, "q1", FALSE, FALSE, <<>>, FALSE, FALSE, Ok(<<>>))

\* the model asked although nothing was retrieved
query_with_rag_AsksAnyway(exists, records, q, o) ==
  LET relevant_docs ==
        similarity_score_threshold(records, q, chroma_k, score_threshold)
  IN IF ~exists
     THEN AnswerRecord(TRUE, q, FALSE, FALSE, <<>>, FALSE, FALSE, Ok(<<>>))
     ELSE IF ~o.opens \/ ~o.finds
     THEN AnswerRecord(TRUE, q, TRUE, FALSE, <<>>, FALSE, FALSE, Failed(<<>>))
     ELSE IF o.answers
     THEN AnswerRecord(TRUE, q, TRUE, TRUE, relevant_docs, TRUE, FALSE, Ok(<<"answer">>))
     ELSE AnswerRecord(TRUE, q, TRUE, TRUE, relevant_docs, TRUE, TRUE, Ok(<<>>))
\* query_with_rag(store_name, query, embedding_function), lines 284-356.
\* None is the empty sequence.  o.opens, o.finds, o.answers: whether Chroma(),
\* retriever.invoke and the chat completion go through.
query_with_rag(exists, records, q, o) ==
  LET relevant_docs ==
        similarity_score_threshold(records, q, chroma_k, score_threshold)
  IN IF ~exists
     THEN AnswerRecord(TRUE, q, FALSE, FALSE, <<>>, FALSE, FALSE, Ok(<<>>))
     ELSE IF ~o.opens \/ ~o.finds
     THEN AnswerRecord(TRUE, q, TRUE, FALSE, <<>>, FALSE, FALSE, Failed(<<>>))
     ELSE IF relevant_docs = <<>>
     THEN AnswerRecord(TRUE, q, TRUE, TRUE, <<>>, FALSE, FALSE, Ok(<<>>))
     ELSE IF o.answers
     THEN AnswerRecord(TRUE, q, TRUE, TRUE, relevant_docs, TRUE, FALSE, Ok(<<"answer">>))
     ELSE AnswerRecord(TRUE, q, TRUE, TRUE, relevant_docs, TRUE, TRUE, Ok(<<>>))

----------------------------------------------------------------------------
(* The local models (src/main.py) *)

\* DEFAULT_MODEL = os.getenv("DEFAULT_MODEL", "llama3")
DEFAULT_MODEL == "llama3"
\* the model names a request can carry
Models == {"llama3", "mistral", "phi3"}
\* OllamaLLM(model=..., base_url=OLLAMA_HOST, ...): an instance and the model
\* it is configured for
OllamaLLM(model) == [model |-> model]

\* get_llm_for_model(model_name), lines 219-243.  inits, falls_back: whether
\* the constructor of line 223 and the one of line 235 go through.  The
\* result carries the cache as the call leaves it and the audit events of
\* the call.
get_llm_for_model(cache, model_name, inits, falls_back) ==
  IF cache[model_name] # <<>>
  THEN [raised |-> FALSE, cache |-> cache, llm |-> cache[model_name],
        constructed |-> 0, events |-> <<>>]
  ELSE IF inits
  THEN [raised |-> FALSE,
        cache |-> [cache EXCEPT ![model_name] = <<OllamaLLM(model_name)>>],
        llm |-> <<OllamaLLM(model_name)>>,
        constructed |-> 1, events |-> <<"llm_initialization">>]
  ELSE IF model_name # DEFAULT_MODEL /\ falls_back
  THEN [raised |-> FALSE,
        cache |-> [cache EXCEPT ![model_name] = <<OllamaLLM(DEFAULT_MODEL)>>],
        llm |-> <<OllamaLLM(DEFAULT_MODEL)>>,
        constructed |-> 1, events |-> <<"llm_initialization_failed">>]
  ELSE [raised |-> TRUE, cache |-> cache, llm |-> <<>>,
        constructed |-> 0, events |-> <<"llm_initialization_failed">>]

\* what an analysis leaves in the history variable: the request's model, the
\* cache entry before the call, the model of the instance that was invoked,
\* the model_used of the response, the audit events of the call
AnalysisRecord(model, before, g, produced_by, success, events) ==
  [called |-> TRUE, model |-> model, cached_before |-> before,
   constructed |-> g.constructed, llm |-> g.llm, produced_by |-> produced_by,
   success |-> success, model_used |-> model, events |-> events]
NoAnalysis ==
  [called |-> FALSE, model |-> DEFAULT_MODEL, cached_before |-> <<>>,
   constructed |-> 0, llm |-> <<>>, produced_by |-> <<>>, success |-> FALSE,
   model_used |-> DEFAULT_MODEL, events |-> <<>>]

----------------------------------------------------------------------------
(* The state machine *)

ChatInit ==
  /\ clock = 0
  /\ requests = <<>>
  /\ pc = [t \in Tasks |-> "idle"]
  /\ now = [t \in Tasks |-> 0]
  /\ wake = [t \in Tasks |-> 0]
  /\ attempt = [t \in Tasks |-> 0]
  /\ result = [t \in Tasks |-> Pending]
  /\ passes = [t \in Tasks |-> 0]
  /\ log = [t \in Tasks |-> <<>>]
  /\ slept = [t \in Tasks |-> 0]
  /\ passed = <<>>

\* no create_batches call
BatchIdle ==
  /\ docs = <<>>
  /\ max_tokens_per_batch = 0
  /\ batches = <<>>
  /\ batched = FALSE

IngestIdle ==
  /\ files_dir = {}
  /\ db_exists = FALSE
  /\ db_records = <<>>
  /\ runs = 0
  /\ run = NoRun
  /\ lastAnswer = NoCall

StoreIdle ==
  /\ vs = [c \in Categories |-> Absent]
  /\ up = [u \in Uploaders |-> NoUpload]
  /\ uploads = 0
  /\ lastQuery = NoQuery

LlmIdle ==
  /\ llm_cache = [m \in Models |-> <<>>]
  /\ lastAnalysis = NoAnalysis

Init == ChatInit /\ LlmIdle /\ BatchIdle /\ IngestIdle /\ StoreIdle

\* time passes
Tick ==
  /\ clock < MaxTime
  /\ clock' = clock + 1
  /\ passed' = SelectSeq(passed, LAMBDA p : clock + 1 - p < window_seconds)
  /\ UNCHANGED <<otherVars, requests, pc, now, wake, attempt, result, passes, log, slept>>

\* chat_with_gemini is called: wait_if_needed runs up to its sleep or its end
wait_if_needed(t) ==
  /\ pc[t] = "idle"
  /\ now' = [now EXCEPT ![t] = clock]
  /\ LET kept == InWindow(requests, clock)
         full == Len(kept) >= max_requests
     IN IF full /\ WaitTime(clock, kept[1]) > 0
        THEN /\ requests' = kept
             /\ wake' = [wake EXCEPT ![t] = clock + WaitTime(clock, kept[1])]
             /\ pc' = [pc EXCEPT ![t] = "limiter_sleep"]
             /\ UNCHANGED <<passes, passed>>
        ELSE /\ requests' = Append(kept, clock)
             /\ pc' = [pc EXCEPT ![t] = "post"]
             /\ passes' = [passes EXCEPT ![t] = @ + 1]
             /\ passed' = Append(passed, clock)
             /\ UNCHANGED wake
  /\ UNCHANGED <<otherVars, clock, attempt, result, log, slept>>

\* asyncio.sleep(wait_time) of wait_if_needed is over: self.requests.append(now)
LimiterWake(t) ==
  /\ pc[t] = "limiter_sleep"
  /\ clock >= wake[t]
  /\ requests' = Append(requests, now[t])
  /\ pc' = [pc EXCEPT ![t] = "post"]
  /\ passes' = [passes EXCEPT ![t] = @ + 1]
  /\ passed' = Append(passed, clock)
  /\ UNCHANGED <<otherVars, clock, now, wake, attempt, result, log, slept>>

\* session.post(...) is sent and comes to o; the rest of the iteration runs up
\* to the return, the raise or the backoff sleep
Post(t, o) ==
  /\ pc[t] = "post"
  /\ log' = [log EXCEPT ![t] = Append(@, o)]
  /\ LET r == Iteration(o, attempt[t])
     IN CASE r.act = "return" ->
               /\ result' = [result EXCEPT ![t] = Returned(r.text)]
               /\ pc' = [pc EXCEPT ![t] = "done"]
               /\ UNCHANGED <<wake, slept>>
          [] r.act = "raise" ->
               /\ result' = [result EXCEPT ![t] = Raised(r.exc)]
               /\ pc' = [pc EXCEPT ![t] = "done"]
               /\ UNCHANGED <<wake, slept>>
          [] r.act = "sleep" ->
               /\ wake' = [wake EXCEPT ![t] = clock + r.wait]
               /\ slept' = [slept EXCEPT ![t] = @ + r.wait]
               /\ pc' = [pc EXCEPT ![t] = "backoff"]
               /\ UNCHANGED result
  /\ UNCHANGED <<otherVars, clock, requests, now, attempt, passes, passed>>

\* the backoff sleep is over: `continue`, the for loop takes its next value
BackoffWake(t) ==
  /\ pc[t] = "backoff"
  /\ clock >= wake[t]
  /\ attempt' = [attempt EXCEPT ![t] = @ + 1]
  /\ IF attempt[t] + 1 < max_retries
     THEN /\ pc' = [pc EXCEPT ![t] = "post"]
          /\ UNCHANGED result
     ELSE /\ pc' = [pc EXCEPT ![t] = "done"]
          /\ result' = [result EXCEPT ![t] = ReturnedNone]
  /\ UNCHANGED <<otherVars, clock, requests, now, wake, passes, log, slept, passed>>

\* chat_with_gemini has answered; the task is free for the next request
Respond(t) ==
  /\ pc[t] = "done"
  /\ pc' = [pc EXCEPT ![t] = "idle"]
  /\ now' = [now EXCEPT ![t] = 0]
  /\ wake' = [wake EXCEPT ![t] = 0]
  /\ attempt' = [attempt EXCEPT ![t] = 0]
  /\ result' = [result EXCEPT ![t] = Pending]
  /\ passes' = [passes EXCEPT ![t] = 0]
  /\ log' = [log EXCEPT ![t] = <<>>]
  /\ slept' = [slept EXCEPT ![t] = 0]
  /\ UNCHANGED <<otherVars, clock, requests, passed>>

\* a caller of wait_if_needed other than the followed chat request is done
CallerReturns(t) ==
  /\ pc[t] = "post"
  /\ pc' = [pc EXCEPT ![t] = "idle"]
  /\ now' = [now EXCEPT ![t] = 0]
  /\ wake' = [wake EXCEPT ![t] = 0]
  /\ passes' = [passes EXCEPT ![t] = 0]
  /\ UNCHANGED <<otherVars, clock, requests, attempt, result, log, slept, passed>>

\* One client sending chat requests one after the other.
Next ==
  \/ Tick
  \/ \E t \in ChatTasks : wait_if_needed(t)
  \/ \E t \in ChatTasks : LimiterWake(t)
  \/ \E t \in ChatTasks : \E o \in Outcomes : Post(t, o)
  \/ \E t \in ChatTasks : BackoffWake(t)
  \/ \E t \in ChatTasks : Respond(t)

Spec == Init /\ [][Next]_vars

\* The limiter under concurrent callers.
LimiterNext ==
  \/ Tick
  \/ \E t \in Tasks : wait_if_needed(t)
  \/ \E t \in Tasks : LimiterWake(t)
  \/ \E t \in Tasks : CallerReturns(t)

LimiterSpec == Init /\ [][LimiterNext]_vars

----------------------------------------------------------------------------
(* The chat path with the retrieval of lines 321-332 *)

\* the stores earlier uploads can have left behind
ChatStores == {Absent, Saved(split_documents("f1.txt"))}

ChatStoreInit ==
  /\ ChatInit /\ LlmIdle /\ BatchIdle /\ IngestIdle
  /\ vs \in [Categories -> ChatStores]
  /\ up = [u \in Uploaders |-> NoUpload]
  /\ uploads = 0
  /\ lastQuery = NoQuery

\* lines 321-324, in the stretch between wait_if_needed and the first POST:
\* the one retriever there is raises in get_relevant_documents.  (With both
\* retrievers combined_retrieve keeps the exception to itself.)
RetrievalFails(t, q, o) ==
  LET rag_retriever == get_retriever(vs["rag"], o.rag_loads)
      cag_retriever == get_retriever(vs["cag"], o.cag_loads)
      retriever == IF rag_retriever # <<>> THEN rag_retriever ELSE cag_retriever
      finds == IF rag_retriever # <<>> THEN o.rag_finds ELSE o.cag_finds
  IN /\ pc[t] = "post" /\ attempt[t] = 0 /\ log[t] = <<>>
     /\ (rag_retriever = <<>>) # (cag_retriever = <<>>)
     /\ get_relevant_documents(retriever, q, finds).raised
     /\ result' = [result EXCEPT ![t] = Raised(RetrievalError)]
     /\ pc' = [pc EXCEPT ![t] = "done"]
     /\ UNCHANGED <<otherVars, clock, requests, now, wake, attempt, passes, log,
                    slept, passed>>

ChatNext ==
  \/ Next
  \/ \E t \in ChatTasks, q \in Queries, o \in QueryOutcomes : RetrievalFails(t, q, o)

ChatSpec == ChatStoreInit /\ [][ChatNext]_vars

----------------------------------------------------------------------------
(* The batcher on its own *)

TokenCounts == {10 * k : k \in 0..MaxTokenSteps}
Limits == {10 * k : k \in 0..MaxLimitSteps}
\* the chunk lists of up to MaxChunks chunks of one document
ChunkLists ==
  {[i \in 1..n |-> Chunk("doc", i, ts[i])] :
     n \in 0..MaxChunks, ts \in [1..MaxChunks -> TokenCounts]}

BatchInit ==
  /\ ChatInit /\ LlmIdle
  /\ IngestIdle
  /\ StoreIdle
  /\ docs \in ChunkLists
  /\ max_tokens_per_batch \in Limits
  /\ batches = <<>>
  /\ batched = FALSE

\* batches = create_batches(docs, max_tokens_per_batch)
CreateBatches ==
  /\ ~batched
  /\ batches' = create_batches(docs, max_tokens_per_batch)
  /\ batched' = TRUE
  /\ UNCHANGED <<chatVars, llmVars, ingestVars, storeVars, docs, max_tokens_per_batch>>

BatchNext == CreateBatches

BatchSpec == BatchInit /\ [][BatchNext]_vars

----------------------------------------------------------------------------
(* Ingestion on its own *)

IngestInit == ChatInit /\ LlmIdle /\ BatchIdle /\ IngestIdle /\ StoreIdle

\* a document is put into files_dir
PutFile(f) ==
  /\ f \notin files_dir
  /\ files_dir' = files_dir \cup {f}
  /\ UNCHANGED <<chatVars, llmVars, batchVars, storeVars, db_exists, db_records, runs,
                 run, lastAnswer>>

\* the orders os.listdir can give the files in
Listings(fs) ==
  {o \in [1..Cardinality(fs) -> fs] : \A i, j \in DOMAIN o : i # j => o[i] # o[j]}

\* process_all_documents(store_name), lines 196-256, from call to return.
\* doc_files: the listing; opens: whether the collection opens in
\* get_existing_sources; loads: the files create_openai_embeddings gets
\* through; reopens: whether Chroma() of line 173 or 224 goes through;
\* fails, dirLeft: as in create_or_update_vector_store.
process_all_documents(doc_files, opens, loads, reopens, fails, dirLeft) ==
  LET before == [exists |-> db_exists, records |-> db_records]
      sources == get_existing_sources(db_exists, db_records, opens)
      new_files == NewFiles(doc_files, sources.value)
      all_docs == AllDocs(new_files, loads)
      upd == create_or_update_vector_store(db_exists, db_records, all_docs,
                                           reopens, fails, dirLeft)
      Ends(outcome) ==
        /\ run' = RunRecord(outcome, before, doc_files, opens, sources,
                            FALSE, <<>>, {})
        /\ UNCHANGED <<db_exists, db_records>>
  IN /\ runs < MaxRuns
     /\ runs' = runs + 1
     /\ IF doc_files = <<>> THEN Ends("returned_none")
        ELSE IF sources.raised THEN Ends("raised")
        ELSE IF new_files = <<>>
             THEN IF db_exists
                  THEN Ends(IF reopens THEN "returned_db" ELSE "raised")
                  ELSE Ends("returned_none")
        ELSE IF all_docs = <<>> THEN Ends("returned_none")
        ELSE /\ db_exists' = upd.exists
             /\ db_records' = upd.records
             /\ run' = RunRecord(IF upd.raised THEN "raised" ELSE "returned_db",
                                 before, doc_files, opens, sources, TRUE,
                                 upd.batches, upd.attempted)
     /\ UNCHANGED <<chatVars, llmVars, batchVars, storeVars, files_dir, lastAnswer>>

\* the most batches one run hands to the store: two of each file
MaxBatches == 2 * Cardinality(Files)

IngestNext ==
  \/ \E f \in Files : PutFile(f)
  \/ \E doc_files \in Listings(files_dir), opens, reopens, dirLeft \in BOOLEAN,
        loads \in SUBSET files_dir, fails \in SUBSET (1..MaxBatches) :
          process_all_documents(doc_files, opens, loads, reopens, fails, dirLeft)

IngestSpec == IngestInit /\ [][IngestNext]_vars

----------------------------------------------------------------------------
(* Questions to the collection that earlier runs left on disk *)

\* the collection a run of process_all_documents leaves behind (inputs as
\* in the action process_all_documents)
StoreAfterRun(store, doc_files, opens, loads, reopens, fails, dirLeft) ==
  LET sources == get_existing_sources(store.exists, store.records, opens)
      new_files == NewFiles(doc_files, sources.value)
      all_docs == AllDocs(new_files, loads)
      upd == create_or_update_vector_store(store.exists, store.records, all_docs,
                                           reopens, fails, dirLeft)
  IN IF doc_files = <<>> \/ sources.raised \/ new_files = <<>> \/ all_docs = <<>>
     THEN store
     ELSE [exists |-> upd.exists, records |-> upd.records]

\* the collections one more run over all the files can turn these into
OneMoreRun(stores) ==
  {StoreAfterRun(store, doc_files, opens, loads, TRUE, fails, dirLeft) :
     store \in stores, doc_files \in Listings(Files), opens \in BOOLEAN,
     loads \in SUBSET Files, fails \in SUBSET (1..MaxBatches),
     dirLeft \in BOOLEAN}

\* the collections that up to two runs leave on disk
ChromaStores == OneMoreRun(OneMoreRun({[exists |-> FALSE, records |-> <<>>]}))

QueryInit ==
  /\ ChatInit /\ LlmIdle /\ BatchIdle /\ StoreIdle
  /\ files_dir = Files
  /\ \E store \in ChromaStores :
        db_exists = store.exists /\ db_records = store.records
  /\ runs = 0
  /\ run = NoRun
  /\ lastAnswer = NoCall

\* answer = query_with_rag("chroma_db", query, embeddings)
QueryWithRag(q, o) ==
  /\ lastAnswer' = query_with_rag(db_exists, db_records, q, o)
  /\ UNCHANGED <<chatVars, llmVars, batchVars, storeVars, files_dir, db_exists,
                 db_records, runs, run>>

AnswerOutcomes == [opens : BOOLEAN, finds : BOOLEAN, answers : BOOLEAN]

QueryNext == \E q \in Queries, o \in AnswerOutcomes : QueryWithRag(q, o)

QuerySpec == QueryInit /\ [][QueryNext]_vars

----------------------------------------------------------------------------
(* The FAISS collections on their own *)

StoreInit == ChatInit /\ LlmIdle /\ BatchIdle /\ IngestIdle /\ StoreIdle

\* show_rag_cag, lines 198-203: the page makes the directories
show_rag_cag ==
  /\ \E c \in Categories : ~vs[c].exists
  /\ vs' = [c \in Categories |-> IF vs[c].exists THEN vs[c] ELSE Saved(<<>>)]
  /\ lastQuery' = NoQuery
  /\ UNCHANGED <<chatVars, llmVars, batchVars, ingestVars, up, uploads>>

\* the file lists of a request
FileLists ==
  {<<f>> : f \in UploadFiles}
    \cup {fs \in [1..2 -> UploadFiles] : fs[1] # fs[2]}

\* upload_corporate_documents(category, files), lines 580-611: from the call
\* to the first `await file.read()`
upload_corporate_documents(u, category, files) ==
  /\ up[u].pc # "reading"
  /\ uploads < MaxUploads
  /\ uploads' = uploads + 1
  /\ LET s == NextStop(files, 1)
     IN up' = [up EXCEPT ![u] =
                 [pc |-> s.pc, category |-> category, files |-> files,
                  i |-> s.i, before |-> vs[category].records, built |-> <<>>,
                  written |-> <<>>, errors |-> s.errors, status |-> Status(s.pc)]]
  /\ lastQuery' = NoQuery
  /\ UNCHANGED <<chatVars, llmVars, batchVars, ingestVars, vs>>

\* upload_corporate_documents, lines 611-673: from one `await file.read()`
\* to the next, to the return or to the HTTP 500.  o.parses: whether
\* process_document returns documents (it swallows the loader's failure and
\* returns []); the rest as in build_vectordb.  The file is written to
\* target_dir before it is processed.
AfterRead(u, o) ==
  LET r == up[u]
      c == r.category
      file == r.files[r.i]
      chunks == split_documents(file)
      b == build_vectordb(vs[c], chunks, o)
      s == NextStop(r.files, r.i + 1)
      written == Append(r.written, file)
      More(built, errors) ==
        up' = [up EXCEPT ![u].i = s.i, ![u].built = built, ![u].pc = s.pc,
                         ![u].written = written,
                         ![u].errors = errors \o s.errors,
                         ![u].status = Status(s.pc)]
  IN /\ r.pc = "reading"
     /\ IF ~o.parses
        THEN /\ More(r.built, Append(r.errors, UploadError(file, "load")))
             /\ UNCHANGED vs
        ELSE IF b.raised
             THEN /\ up' = [up EXCEPT ![u].pc = "failed", ![u].written = written,
                                      ![u].errors = Append(r.errors, UploadError(file, "build")),
                                      ![u].status = Status("failed")]
                  /\ UNCHANGED vs
             ELSE /\ More(r.built \o chunks, r.errors)
                  /\ vs' = [vs EXCEPT ![c] = b.value]
     /\ lastQuery' = NoQuery
     /\ UNCHANGED <<chatVars, llmVars, batchVars, ingestVars, uploads>>

\* get_combined_retriever() and retriever.get_relevant_documents(query), as
\* in lines 322-324 of src/main.py.  o.rag_loads, o.cag_loads: whether the
\* stores load; o.rag_finds, o.cag_finds: whether the searches go through.
Retrieve(q, o) ==
  LET rag_retriever == get_retriever(vs["rag"], o.rag_loads)
      cag_retriever == get_retriever(vs["cag"], o.cag_loads)
      rag_docs == IF rag_retriever = <<>> THEN Ok(<<>>)
                  ELSE get_relevant_documents(rag_retriever, q, o.rag_finds)
      cag_docs == IF cag_retriever = <<>> THEN Ok(<<>>)
                  ELSE get_relevant_documents(cag_retriever, q, o.cag_finds)
  IN /\ lastQuery' =
          IF rag_retriever # <<>> /\ cag_retriever # <<>>
          THEN QueryRecord("combined", q, rag_docs, cag_docs,
                           combined_retrieve(rag_docs, cag_docs))
          ELSE IF rag_retriever # <<>>
          THEN QueryRecord("rag", q, rag_docs, cag_docs, rag_docs)
          ELSE IF cag_retriever # <<>>
          THEN QueryRecord("cag", q, rag_docs, cag_docs, cag_docs)
          ELSE QueryRecord("no_retriever", q, rag_docs, cag_docs, Ok(<<>>))
     /\ UNCHANGED <<chatVars, llmVars, batchVars, ingestVars, vs, up, uploads>>

BuildOutcomes == [parses : BOOLEAN, loads : BOOLEAN, adds : BOOLEAN, creates : BOOLEAN]

StoreNext ==
  \/ show_rag_cag
  \/ \E u \in StoreUploaders, category \in Categories, files \in FileLists :
        upload_corporate_documents(u, category, files)
  \/ \E u \in StoreUploaders, o \in BuildOutcomes : AfterRead(u, o)
  \/ \E q \in Queries, o \in QueryOutcomes : Retrieve(q, o)

StoreSpec == StoreInit /\ [][StoreNext]_vars

----------------------------------------------------------------------------
(* Runs that append to a collection an earlier run created *)

\* an earlier run stored a.pdf, alone in files_dir then; big.docx has come since
ResumeInit ==
  /\ ChatInit /\ LlmIdle /\ BatchIdle /\ StoreIdle
  /\ files_dir = Files
  /\ LET store == StoreAfterRun([exists |-> FALSE, records |-> <<>>], <<"a.pdf">>,
                                TRUE, {"a.pdf"}, TRUE, {}, FALSE)
     IN db_exists = store.exists /\ db_records = store.records
  /\ runs = 0
  /\ run = NoRun
  /\ lastAnswer = NoCall

ResumeNext ==
  \E doc_files \in Listings(files_dir), opens, reopens, dirLeft \in BOOLEAN,
     loads \in SUBSET files_dir, fails \in SUBSET (1..MaxBatches) :
       process_all_documents(doc_files, opens, loads, reopens, fails, dirLeft)

ResumeSpec == ResumeInit /\ [][ResumeNext]_vars

----------------------------------------------------------------------------
(* Two upload requests for the rag collection on one event loop *)

ConcurrentNext ==
  \/ \E u \in Uploaders, files \in FileLists :
        upload_corporate_documents(u, "rag", files)
  \/ \E u \in Uploaders, o \in BuildOutcomes : AfterRead(u, o)

ConcurrentSpec == StoreInit /\ [][ConcurrentNext]_vars

----------------------------------------------------------------------------
(* The analysis endpoint and its cache of local models *)

\* analyze_mapping_errors(request), lines 676-815, from call to return.
\* o.retrieves: whether the context retrieval of lines 695-707 goes through;
\* o.inits, o.falls_back: as in get_llm_for_model; o.invokes: whether
\* llm.invoke(system_prompt) goes through.
analyze_mapping_errors(model, o) ==
  LET g == IF o.retrieves
           THEN get_llm_for_model(llm_cache, model, o.inits, o.falls_back)
           ELSE [raised |-> TRUE, cache |-> llm_cache, llm |-> <<>>,
                 constructed |-> 0, events |-> <<>>]
      started == <<"analysis_started_enhanced">> \o g.events
  IN /\ llm_cache' = g.cache
     /\ lastAnalysis' =
          IF g.raised
          THEN AnalysisRecord(model, llm_cache[model], g, <<>>, FALSE,
                              Append(started, "analysis_failed_enhanced"))
          ELSE IF ~o.invokes
          THEN AnalysisRecord(model, llm_cache[model], g, <<>>, FALSE,
                              Append(started, "analysis_failed_enhanced"))
          ELSE AnalysisRecord(model, llm_cache[model], g, <<g.llm[1].model>>, TRUE,
                              Append(started, "analysis_completed_enhanced"))
     /\ UNCHANGED <<chatVars, batchVars, ingestVars, storeVars>>

LlmOutcomes ==
  [retrieves : BOOLEAN, inits : BOOLEAN, falls_back : BOOLEAN, invokes : BOOLEAN]

LlmNext == \E model \in Models, o \in LlmOutcomes : analyze_mapping_errors(model, o)

LlmSpec == Init /\ [][LlmNext]_vars

----------------------------------------------------------------------------
(* Upload requests that carry files the endpoint turns away *)

AnyFileLists ==
  {<<f>> : f \in AnyFiles}
    \cup {fs \in [1..2 -> AnyFiles] : fs[1] # fs[2]}
    \cup {fs \in [1..3 -> AnyFiles] : fs[1] # fs[2] /\ fs[1] # fs[3] /\ fs[2] # fs[3]}

UploadNext ==
  \/ \E u \in StoreUploaders, files \in AnyFileLists :
        upload_corporate_documents(u, "rag", files)
  \/ \E u \in StoreUploaders, o \in BuildOutcomes : AfterRead(u, o)

UploadSpec == StoreInit /\ [][UploadNext]_vars

----------------------------------------------------------------------------
(* Properties *)

Last(s) == s[Len(s)]
\* the responses of the running call that were followed by a retry
Retried(t) == IF pc[t] = "done" THEN Len(log[t]) - 1 ELSE Len(log[t])
\* a 200 response whose first candidate carries a text
HasText(o) ==
  /\ o.kind = "response" /\ o.status = 200
  /\ o.data.candidates # <<>>
  /\ o.data.candidates[1].content # <<>>
  /\ o.data.candidates[1].content[1].parts # <<>>
  /\ o.data.candidates[1].content[1].parts[1].text # <<>>
TextOf(o) == o.data.candidates[1].content[1].parts[1].text[1]
\* a 200 response with an empty or malformed candidate list
EmptyOrMalformed(o) ==
  /\ o.kind = "response" /\ o.status = 200
  /\ \/ o.data.candidates = <<>>
     \/ o.data.candidates[1].content = <<>>
     \/ o.data.candidates[1].content[1].parts = <<>>
\* a non-2xx response other than 429 and 403
OtherError(o) ==
  /\ o.kind = "response"
  /\ o.status \notin {429, 403}
  /\ o.status < 200 \/ o.status > 299

\* C1: wait_if_needed never lets more than max_requests requests through
\* within any window_seconds interval (here: the interval ending now).
C1_AtMostRPerWindow == Len(passed) <= max_requests

\* C2: a call that finds max_requests timestamps inside the window suspends and
\* does not return before the oldest of them is window_seconds old; a call that
\* finds fewer returns without suspending.
C2_Entry(t) ==
  LET inside == {i \in 1..Len(requests) : clock - requests[i] < window_seconds}
  IN IF Cardinality(inside) >= max_requests
     THEN /\ pc'[t] = "limiter_sleep"
          /\ \E i \in inside :
               /\ \A j \in inside : requests[i] <= requests[j]
               /\ wake'[t] - requests[i] >= window_seconds
     ELSE pc'[t] = "post"
C2_FullWindowDelays ==
  [][\A t \in Tasks :
       /\ (pc[t] = "idle" /\ pc'[t] # "idle") => C2_Entry(t)
       /\ (pc[t] = "limiter_sleep" /\ pc'[t] # "limiter_sleep") => clock >= wake[t]
    ]_vars
C2_Witness ==
  \E t \in Tasks : pc[t] = "post" /\ wake[t] > now[t] /\ clock >= wake[t]

\* C3: every POST of a chat call is preceded by its own pass through
\* wait_if_needed: a call never has more POSTs than passes.
C3_EveryPostGated == \A t \in Tasks : Len(log[t]) <= passes[t]

\* C4: 429, 429, then a successful response: the call ends on the third
\* attempt, returns the text and has slept 2 + 4 seconds.
C4_TwoRateLimitsThenSuccess ==
  \A t \in Tasks :
    /\ (Len(log[t]) >= 1 /\ log[t][1].status = 429) =>
          (Len(log[t]) = 1 => pc[t] # "done" /\ slept[t] = 2)
    /\ (Len(log[t]) >= 2 /\ log[t][1].status = 429 /\ log[t][2].status = 429) =>
          (Len(log[t]) = 2 => pc[t] # "done" /\ slept[t] = 6)
    /\ (Len(log[t]) >= 3 /\ log[t][1].status = 429 /\ log[t][2].status = 429
          /\ HasText(log[t][3])) =>
          /\ Len(log[t]) = 3
          /\ pc[t] = "done"
          /\ result[t] = Returned(TextOf(log[t][3]))
          /\ slept[t] = 6
C4_Witness ==
  \E t \in Tasks :
    /\ pc[t] = "done" /\ Len(log[t]) = 3
    /\ log[t][1].status = 429 /\ log[t][2].status = 429
    /\ HasText(log[t][3]) /\ TextOf(log[t][3]) = "answer"

\* C5: a 403 ends the call at once: the call is over in the state the 403
\* arrives in, with the permission failure raised and surfaced, no sleep added;
\* a 403 on the first attempt means one attempt and no sleep at all.
C5_ForbiddenNotRetried ==
  \A t \in Tasks :
    (log[t] # <<>> /\ Last(log[t]).status = 403) =>
      /\ pc[t] = "done"
      /\ result[t] = Raised(ForbiddenError)
      /\ GeminiChatResponse(result[t]) =
           [success |-> FALSE, response |-> "",
            error_message |-> <<"Invalid API key or insufficient permissions">>]
      /\ \A i \in 1..(Len(log[t]) - 1) : log[t][i].status # 403
      /\ Len(log[t]) = 1 => slept[t] = 0
C5_Witness ==
  \E t \in Tasks : pc[t] = "done" /\ Len(log[t]) = 2 /\ Last(log[t]).status = 403

\* C6: an empty or malformed 200 response is retried while attempts remain.
C6_EmptyResponseRetried ==
  \A t \in Tasks :
    (log[t] # <<>> /\ EmptyOrMalformed(Last(log[t])) /\ Len(log[t]) < max_retries)
      => pc[t] # "done"

\* C7: a value returned by the call is a non-empty text.
C7_ReturnedTextNonEmpty ==
  \A t \in Tasks : result[t].kind = "returned" => result[t].text # ""

\* C8: the sleeps of a call are those of its retried responses, attempt by
\* attempt; a timeout is retried while attempts remain and surfaces a timeout
\* failure on the last attempt.
SleptWith(t, timeoutDelays) ==
  LET d(i) == IF log[t][i].kind = "timeout" THEN timeoutDelays[i] ELSE <<2, 4, 8>>[i]
      sum[n \in 0..max_retries] == IF n = 0 THEN 0 ELSE sum[n - 1] + d(n)
  IN sum[Retried(t)]
TimeoutHandled(t, timeoutDelays) ==
  /\ slept[t] = SleptWith(t, timeoutDelays)
  /\ (log[t] # <<>> /\ Last(log[t]).kind = "timeout") =>
        IF Len(log[t]) < max_retries THEN pc[t] # "done"
        ELSE pc[t] = "done" /\ result[t] = Raised(RequestTimeoutError)
\* as claimed: a timeout sleeps what a 429 sleeps (2 s, 4 s)
C8_TimeoutBackoffAs429 == \A t \in ChatTasks : TimeoutHandled(t, <<2, 4, 8>>)
\* amended: a timeout sleeps 1 s after the first attempt, 2 s after the second
C8_TimeoutBackoffHalved == \A t \in ChatTasks : TimeoutHandled(t, <<1, 2, 4>>)
C8_Witness ==
  \E t \in ChatTasks :
    /\ pc[t] = "done" /\ Len(log[t]) = 3
    /\ \A i \in 1..3 : log[t][i].kind = "timeout"

\* C9: a non-2xx response other than 429 and 403 ends the call with the status
\* and the body attached.
FailsWithBody(t) ==
  /\ pc[t] = "done"
  /\ result[t] = Raised(ApiError(Last(log[t]).status, Last(log[t]).body))
\* as claimed: whatever the body and however many attempts remain
C9_OtherStatusFails ==
  \A t \in ChatTasks :
    (log[t] # <<>> /\ OtherError(Last(log[t]))) => FailsWithBody(t)
\* amended: unless attempts remain and the body mentions "rate limit"; then the
\* attempt is retried after the delay of a 429
C9_OtherStatusFailsUnlessRateLimit ==
  \A t \in ChatTasks :
    (log[t] # <<>> /\ OtherError(Last(log[t]))) =>
      IF Len(log[t]) < max_retries /\ Last(log[t]).body = "Rate limit reached"
      THEN pc[t] # "done" /\ slept[t] = SleptWith(t, <<1, 2, 4>>)
      ELSE FailsWithBody(t)
C9_Witness ==
  \E t \in ChatTasks :
    /\ pc[t] = "done" /\ Len(log[t]) = 2
    /\ OtherError(log[t][1]) /\ OtherError(log[t][2])
    /\ log[t][2].body = "Internal error"

\* C10: a call makes at most max_retries attempts, is over once the last of
\* them has its response, and ends by returning a text or by raising.
C10_BoundedAttempts ==
  \A t \in Tasks :
    /\ Len(log[t]) <= max_retries
    /\ attempt[t] < max_retries
    /\ Len(log[t]) = max_retries => pc[t] = "done"
    /\ pc[t] = "done" <=> result[t].kind \in {"returned", "raised"}
    /\ pc[t] = "done" => Len(log[t]) >= 1
C10_Witness ==
  \E t \in Tasks :
    /\ pc[t] = "done" /\ Len(log[t]) = max_retries
    /\ result[t].kind = "raised"

----------------------------------------------------------------------------
(* Properties of the batcher *)

RECURSIVE TokenSum(_)
TokenSum(b) == IF b = <<>> THEN 0 ELSE b[1].tokens + TokenSum(Tail(b))
RECURSIVE Flatten(_)
Flatten(bs) == IF bs = <<>> THEN <<>> ELSE bs[1] \o Flatten(Tail(bs))

\* C11: no batch is over the limit, except a batch of exactly one chunk that is
\* over the limit by itself; and no batch is empty.
C11_BatchesWithinLimit ==
  batched =>
    \A k \in 1..Len(batches) :
      /\ batches[k] # <<>>
      /\ \/ TokenSum(batches[k]) <= max_tokens_per_batch
         \/ Len(batches[k]) = 1 /\ batches[k][1].tokens > max_tokens_per_batch
\* an oversized chunk in the middle of the input, kept alone in its batch
C11_Witness ==
  /\ batched
  /\ Len(docs) = 3
  /\ docs[2].tokens > max_tokens_per_batch
  /\ docs[1].tokens + docs[3].tokens <= max_tokens_per_batch
  /\ Len(batches) = 3

\* C12: the batches, one after the other, are the input: nothing lost,
\* duplicated or reordered.
C12_BatchesAreTheInput == batched => Flatten(batches) = docs
C12_Witness == batched /\ Len(docs) = 3 /\ Len(batches) = 2 /\ Len(batches[1]) = 2

\* C13: a batch is closed exactly when the next chunk would push the sum over
\* the limit: every batch but the last, plus the first chunk of the next, is
\* over the limit; and 50, 60, 70 under 100 gives three batches of one chunk.
C13_Greedy ==
  batched =>
    /\ \A k \in 1..(Len(batches) - 1) :
         TokenSum(batches[k]) + batches[k + 1][1].tokens > max_tokens_per_batch
    /\ \A k \in 1..Len(batches) : \A n \in 2..Len(batches[k]) :
         TokenSum(SubSeq(batches[k], 1, n)) <= max_tokens_per_batch
    /\ (Len(docs) = 3 /\ docs[1].tokens = 50 /\ docs[2].tokens = 60
          /\ docs[3].tokens = 70 /\ max_tokens_per_batch = 100) =>
         batches = <<<<docs[1]>>, <<docs[2]>>, <<docs[3]>>>>
C13_Witness ==
  /\ batched
  /\ Len(docs) = 3 /\ docs[1].tokens = 50 /\ docs[2].tokens = 60
  /\ docs[3].tokens = 70 /\ max_tokens_per_batch = 100
  /\ Len(batches) = 3

----------------------------------------------------------------------------
(* Properties of the ingestion into the Chroma collection *)

\* C14: whatever process_all_documents runs there have been, no chunk of a
\* source is stored twice in the collection.
C14_NoDuplicateRecords ==
  \A i, j \in DOMAIN db_records : i # j => db_records[i] # db_records[j]

\* the run got as far as handing batches to a store it created or opened
StoreReached ==
  /\ run.updated
  /\ \/ run.dbBefore.exists /\ run.batches # <<>>
     \/ ~run.dbBefore.exists /\ db_exists /\ db_records # <<>>

\* C16: once the store is created or opened, a failing batch add does not end
\* the run: every batch is attempted and the run returns, on an existing
\* collection and on a newly created one.
C16_FailedAddSkipped ==
  StoreReached =>
    /\ run.attempted = 1..Len(run.batches)
    /\ run.outcome = "returned_db"

\* C17: get_existing_sources never raises; it returns the empty set when the
\* collection is absent or cannot be opened, and otherwise the distinct
\* sources of the stored records.
C17_ExistingSourcesFailSoft ==
  run.doc_files # <<>> =>
    /\ ~run.sources.raised
    /\ run.sources.value =
         IF run.dbBefore.exists /\ run.opened
         THEN {f \in Files : \E i \in DOMAIN run.dbBefore.records :
                               run.dbBefore.records[i].source = f}
         ELSE {}
\* a run that could not open a collection that holds records
C17_Witness ==
  /\ run.doc_files # <<>>
  /\ run.dbBefore.exists /\ run.dbBefore.records # <<>>
  /\ ~run.opened
  /\ run.sources = Ok({})

----------------------------------------------------------------------------
(* Properties of the FAISS collections *)

\* C15: no step that adds to a collection loses a record persisted before it:
\* the records persisted before the step are the first of those persisted
\* after it.
C15_AppendOnly ==
  [][\A c \in Categories :
       /\ Len(vs[c].records) <= Len(vs'[c].records)
       /\ SubSeq(vs'[c].records, 1, Len(vs[c].records)) = vs[c].records]_vars

\* C18: while a request is handled and after it has returned or failed, the
\* persisted collection holds what was persisted before the request, followed
\* by the chunks of the files whose build_vectordb has returned.
C18_PersistedSoFar ==
  \A u \in Uploaders :
    up[u].pc # "idle" =>
      vs[up[u].category].records = up[u].before \o up[u].built

\* the result list is no longer than k, has no record under the threshold,
\* and is in descending order of similarity
WithinKAndThreshold(found, q, k) ==
  /\ Len(found) <= k
  /\ \A i \in DOMAIN found : Score(q, found[i]) >= score_threshold
  /\ \A i, j \in DOMAIN found : i < j => Score(q, found[i]) >= Score(q, found[j])

\* C19: what the retriever of a collection returns for a query is at most k
\* records, each of similarity at least the threshold, in descending order.
C19_RetrieverWithinKAndThreshold ==
  lastQuery.kind # "none" =>
    /\ WithinKAndThreshold(lastQuery.rag_docs.value, lastQuery.query, faiss_k)
    /\ WithinKAndThreshold(lastQuery.cag_docs.value, lastQuery.query, faiss_k)

\* C20: with both collections available and both searches answered, the
\* combined retriever returns the rag_docs result list followed by the
\* cag_docs result list, each as its own retriever gives it.
C20_CombinedIsRagThenCag ==
  (/\ lastQuery.kind = "combined"
   /\ ~lastQuery.rag_docs.raised
   /\ ~lastQuery.cag_docs.raised) =>
    /\ lastQuery.rag_docs.value =
         similarity_search(vs["rag"].records, lastQuery.query, faiss_k)
    /\ lastQuery.cag_docs.value =
         similarity_search(vs["cag"].records, lastQuery.query, faiss_k)
    /\ lastQuery.docs = Ok(lastQuery.rag_docs.value \o lastQuery.cag_docs.value)
\* both collections hold records, and the two result lists differ
C20_Witness ==
  /\ lastQuery.kind = "combined"
  /\ ~lastQuery.rag_docs.raised /\ ~lastQuery.cag_docs.raised
  /\ Len(lastQuery.rag_docs.value) = 4
  /\ Len(lastQuery.cag_docs.value) = 2
  /\ lastQuery.docs.value # lastQuery.cag_docs.value \o lastQuery.rag_docs.value
  /\ Len(lastQuery.docs.value) = 6

----------------------------------------------------------------------------
(* Properties of the chat path with retrieval *)

\* C21: however a chat request ends, the caller gets a GeminiChatResponse: of
\* a failure (in the retrieval, the backend call or the handling of the
\* response) one with success = false and a non-empty error_message, of a
\* returned text one with success = true and no error_message.
C21_StructuredFailure ==
  \A t \in ChatTasks :
    pc[t] = "done" =>
      LET r == GeminiChatResponse(result[t])
      IN /\ r.success = (result[t].kind = "returned")
         /\ ~r.success => r.error_message # <<>> /\ r.error_message[1] # ""
         /\ r.success => r.error_message = <<>>
\* a request that ended in the retrieval, before any POST
C21_Witness ==
  \E t \in ChatTasks :
    /\ pc[t] = "done"
    /\ log[t] = <<>>
    /\ result[t] = Raised(RetrievalError)
    /\ GeminiChatResponse(result[t]).error_message = <<"Error searching the index">>

----------------------------------------------------------------------------
(* Properties of query_with_rag *)

\* C22: when the collection does not exist, or the retrieval returns no
\* document, query_with_rag returns None, raises nothing and does not call
\* the model.
C22_NoAnswerWithoutDocs ==
  (/\ lastAnswer.called
   /\ \/ ~lastAnswer.exists
      \/ lastAnswer.retrieved /\ lastAnswer.relevant_docs = <<>>) =>
    /\ lastAnswer.observed = Ok(<<>>)
    /\ ~lastAnswer.llm_called
\* the collection holds records, none of them close enough to the query
C22_Witness ==
  /\ lastAnswer.called /\ lastAnswer.exists /\ lastAnswer.retrieved
  /\ db_records # <<>>
  /\ lastAnswer.relevant_docs = <<>>
  /\ lastAnswer.observed = Ok(<<>>)

\* C23: what the caller observes when the call of the model fails is not the
\* None that stands for "no relevant documents".
C23_NoAnswerDistinctFromFailure ==
  (lastAnswer.called /\ lastAnswer.llm_failed) => lastAnswer.observed # Ok(<<>>)

----------------------------------------------------------------------------
(* Properties of the stored metadata *)

\* C24: every record of a collection carries as metadata["source"] the path
\* under which its document is kept in the documents directory.
C24_SourceIsKeptPath ==
  /\ \A c \in Categories : \A i \in DOMAIN vs[c].records :
       vs[c].records[i].source \in {KeptPath(c, f) : f \in UploadFiles}
  /\ \A i \in DOMAIN db_records : db_records[i].source \in files_dir

----------------------------------------------------------------------------
(* Properties of concurrent callers and concurrent uploads *)

\* C25: tasks suspended together by a full window are not released together:
\* when every task has come out of its suspension, still no more than
\* max_requests tasks have returned from wait_if_needed within the window.
C25_SuspendedNotReleasedTogether ==
  (\A t \in Tasks : pc[t] = "post" /\ wake[t] > 0) => Len(passed) <= max_requests


\* C26: when two upload requests for one category have both returned, the
\* persisted collection holds every chunk that either of them stored.
C26_NoLostChunks ==
  (/\ \A u \in Uploaders : up[u].pc = "returned"
   /\ up["u1"].category = up["u2"].category) =>
    \A u \in Uploaders : \A i \in DOMAIN up[u].built :
      \E j \in DOMAIN vs[up[u].category].records :
        vs[up[u].category].records[j] = up[u].built[i]


\* C27: a run skips a file as already ingested only when all of its chunks
\* are in the collection, so that a source left partly stored by a failed
\* batch of an append run is completed by a later run.
C27_SkippedOnlyWhenComplete ==
  \A i \in DOMAIN run.doc_files :
    run.doc_files[i] \in run.sources.value =>
      \A k \in DOMAIN ChunksOf(run.doc_files[i]) :
        \E j \in DOMAIN run.dbBefore.records :
          run.dbBefore.records[j] = ChunksOf(run.doc_files[i])[k]


\* C28: a collection whose directory is present (what the health endpoint and
\* the status panel report as ready) loads when nothing fails from outside:
\* get_retriever gives a retriever and build_vectordb appends to what is there.
C28_ReportedReadyIsLoadable ==
  \A c \in Categories :
    vs[c].exists =>
      /\ get_retriever(vs[c], TRUE) # <<>>
      /\ Loads(vs[c], TRUE)


\* C29: every entry llm_cache[m] is an instance configured for model m, and
\* the model_used of a successful analysis is the model that produced it.
C29_CacheHoldsRequestedModel ==
  /\ \A m \in Models : llm_cache[m] # <<>> => llm_cache[m][1].model = m
  /\ (lastAnalysis.called /\ lastAnalysis.success) =>
       lastAnalysis.produced_by = <<lastAnalysis.model_used>>
----------------------------------------------------------------------------
(* Properties of the upload endpoint's error handling *)

Supported(file) == suffix(file) \in allowed_extensions
Aborting(err) == err.kind \in {"too_large", "build"}

C30_Standing(u) ==
  LET r == up[u]
      read == IF r.pc = "failed" /\ r.errors[Len(r.errors)].kind = "build"
              THEN r.i ELSE r.i - 1
  IN r.pc # "idle" =>
       /\ (r.pc = "failed") = (\E k \in DOMAIN r.errors : Aborting(r.errors[k]))
       /\ r.pc = "failed" => r.status = 500
       /\ r.pc = "returned" =>
            /\ r.status = 200
            /\ \A k \in DOMAIN r.files : size(r.files[k]) <= MAX_FILE_SIZE
            /\ r.written = SelectSeq(r.files, Supported)
       /\ r.written = SelectSeq(SubSeq(r.files, 1, read), Supported)
\* the step that ends a request with HTTP 500 takes nothing back: what the
\* request wrote and embedded before stays, and the collection changes only
\* by what the step itself embedded before it met the error
C30_NoRollback(u) ==
  (up[u].pc = "reading" /\ up'[u].pc = "failed") =>
    /\ SubSeq(up'[u].written, 1, Len(up[u].written)) = up[u].written
    /\ SubSeq(up'[u].built, 1, Len(up[u].built)) = up[u].built
    /\ up'[u].built = up[u].built => vs' = vs
    /\ up'[u].built # up[u].built =>
         \A k \in (Len(up[u].built) + 1)..Len(up'[u].built) :
           \E j \in DOMAIN vs'[up[u].category].records :
             vs'[up[u].category].records[j] = up'[u].built[k]

====
